---- MODULE Spec2Model ----
(***************************************************************************)
(* Model of agentpy's output record (agentpy/datadict.py): the DataDict    *)
(* container, its persistence (save / load / _last_exp_id) and its         *)
(* arrangement engine (_combine_vars, _combine_pars, arrange).             *)
(*                                                                         *)
(* Strings that the code builds or takes apart (directory and file names,  *)
(* DataDict keys) are sequences of tokens.  A token is either a single     *)
(* character ("x", "y", " ", "_", ".", a digit) or a whole word that holds *)
(* none of those characters and none of the other words ("Model",          *)
(* "variables", "csv", ...), so that containment, splitting and replacing  *)
(* on tokens agree with the same operations on characters.                 *)
(***************************************************************************)
EXTENDS Integers, Sequences, FiniteSets, TLC

VARIABLES
    base,     \* whether the base path (path='ap_output') exists
    fs,       \* experiment directory name -> [files, mtime, src]
    clock,    \* source of modification times
    out,      \* what the last save / load call did
    rec,      \* the record the arrangement engine works on
    res       \* what the last arrangement call returned

vars == <<base, fs, clock, out, rec, res>>

\* ---------------------------------------------------------------- bounds
MaxDirs == 2      \* experiment directories the base path may hold; explicit
                  \* exp_id arguments are 1..MaxDirs
MaxSample == 4    \* sample sizes of the generated records are 1..MaxSample

\* ---------------------------------------------------------------- strings
Max(S) == CHOOSE m \in S : \A n \in S : n <= m

\* sub in s
Contains(sub, s) ==
    \E i \in 1..(Len(s) - Len(sub) + 1) : SubSeq(s, i, i + Len(sub) - 1) = sub

StartsWith(s, sub) == Len(sub) <= Len(s) /\ SubSeq(s, 1, Len(sub)) = sub

\* s.replace(old, new), old non-empty: leftmost, non-overlapping
RECURSIVE Replace(_, _, _)
Replace(s, old, new) ==
    IF s = <<>> THEN <<>>
    ELSE IF StartsWith(s, old)
         THEN new \o Replace(SubSeq(s, Len(old) + 1, Len(s)), old, new)
         ELSE <<Head(s)>> \o Replace(Tail(s), old, new)

\* position of the last sep in s, 0 when there is none
LastPos(s, sep) ==
    IF \E i \in 1..Len(s) : s[i] = sep
    THEN Max({i \in 1..Len(s) : s[i] = sep})
    ELSE 0

\* s.split(sep)[-1]
SplitLast(s, sep) == SubSeq(s, LastPos(s, sep) + 1, Len(s))

\* s.rsplit(sep, 1)[0]
RSplitHead(s, sep) ==
    IF LastPos(s, sep) = 0 THEN s ELSE SubSeq(s, 1, LastPos(s, sep) - 1)

Digits == <<"0", "1", "2", "3", "4", "5", "6", "7", "8", "9">>

DigitVal(c) == (CHOOSE i \in 1..10 : Digits[i] = c) - 1

\* str(n) for n >= 0
RECURSIVE IntToStr(_)
IntToStr(n) ==
    IF n < 10 THEN <<Digits[n + 1]>>
    ELSE IntToStr(n \div 10) \o <<Digits[(n % 10) + 1]>>

\* whether int(s) succeeds
IsInt(s) == s # <<>> /\ \A i \in 1..Len(s) : \E d \in 1..10 : Digits[d] = s[i]

\* int(s)
RECURSIVE StrToInt(_)
StrToInt(s) ==
    IF Len(s) = 1 THEN DigitVal(s[1])
    ELSE 10 * StrToInt(SubSeq(s, 1, Len(s) - 1)) + DigitVal(s[Len(s)])

\* ---------------------------------------------------------------- values
\* Python values the model distinguishes: int, str, list, tuple, NaN, None
\* and an object json cannot serialise.
PyInt(n) == [ty |-> "int", n |-> n, s |-> "", l |-> <<>>]
PyStr(s) == [ty |-> "str", n |-> 0, s |-> s, l |-> <<>>]
PyList(l) == [ty |-> "list", n |-> 0, s |-> "", l |-> l]
PyTuple(l) == [ty |-> "tuple", n |-> 0, s |-> "", l |-> l]
NaN == [ty |-> "nan", n |-> 0, s |-> "", l |-> <<>>]
None == [ty |-> "none", n |-> 0, s |-> "", l |-> <<>>]
Obj == [ty |-> "object", n |-> 0, s |-> "", l |-> <<>>]

\* str(v) of a list or tuple: a string, which equals no list
Repr(v) == [ty |-> "str", n |-> 0, s |-> v.ty, l |-> v.l]

\* Entries of a DataDict
DF(index, columns, rows) ==
    [ty |-> "DataFrame", index |-> index, columns |-> columns, rows |-> rows]
Row(idx, vals) == [idx |-> idx, vals |-> vals]
DD(items) == [ty |-> "DataDict", items |-> items]
Dict(items) == [ty |-> "dict", items |-> items]
AttrDict(items) == [ty |-> "AttrDict", items |-> items]
Val(v) == [ty |-> "value", v |-> v]

Empty == [x \in {} |-> None]

\* a key of a DataDict that is one word
K(word) == <<word>>

\* a set of <<key, value>> pairs with distinct keys, as a mapping
PairsToFn(P) == [k \in {p[1] : p \in P} |-> (CHOOSE p \in P : p[1] = k)[2]]

IsDataFrame(e) == e.ty = "DataFrame"
IsDataDict(e) == e.ty = "DataDict"
\* isinstance(e, dict): AttrDict and DataDict subclass dict
IsDict(e) == e.ty \in {"dict", "AttrDict", "DataDict"}

\* DataFrame.equals: same index names, columns and cells, row by row
DfEquals(a, b) == IsDataFrame(b) /\ a = b

\* dict.__eq__ on plain mappings: same keys and values, whatever the class
DictEq(a, b) == a.ty \in {"dict", "AttrDict"} /\ b.ty \in {"dict", "AttrDict"}
                /\ a.items = b.items

\* DataDict.__eq__ on the children of a nested record (children are tables,
\* mappings or values)
ChildEq(x, y) ==
    IF IsDataFrame(x) THEN DfEquals(x, y)
    ELSE IF x.ty = "value" THEN y.ty = "value" /\ x.v = y.v
    ELSE DictEq(x, y)

\* DataDict.__eq__(self, other), self and other given by their items
DataDictEq(a, b) ==
    \A key \in DOMAIN a :
        /\ key \in DOMAIN b
        /\ IF IsDataFrame(a[key]) THEN DfEquals(a[key], b[key])
           ELSE IF IsDataDict(a[key])
                THEN /\ IsDataDict(b[key])
                     /\ \A k \in DOMAIN a[key].items :
                           /\ k \in DOMAIN b[key].items
                           /\ ChildEq(a[key].items[k], b[key].items[k])
           ELSE IF a[key].ty = "value"
                THEN b[key].ty = "value" /\ a[key].v = b[key].v
           ELSE DictEq(a[key], b[key])

\* ---------------------------------------------------------------- json
\* json.dump(o, cls=NpEncoder) raises TypeError
JsonFails(e) ==
    IF e.ty = "value" THEN e.v.ty = "object"
    ELSE \E k \in DOMAIN e.items : e.items[k].ty = "object"

\* json writes every key as a string and a tuple as an array
JsonKey(k) == IF k.ty = "int" THEN PyStr(Digits[k.n + 1]) ELSE k
JsonValue(v) == IF v.ty = "tuple" THEN PyList(v.l) ELSE v

\* the parsed content of the file json.dump writes
JsonDump(e) ==
    IF e.ty = "value" THEN [kind |-> "json", isdict |-> FALSE, v |-> JsonValue(e.v),
                            items |-> Empty]
    ELSE [kind |-> "json", isdict |-> TRUE, v |-> None,
          items |-> PairsToFn({<<JsonKey(k), JsonValue(e.items[k])>> :
                                 k \in DOMAIN e.items})]

\* what is left of a file when json.dump raised while writing it
PartialFile == [kind |-> "partial"]

\* ---------------------------------------------------------------- csv
\* DataFrame.to_csv: the index levels are written as the first columns, an
\* unnamed level ("") under an empty header that read_csv calls "Unnamed: 0"
CsvCell(v) == IF v.ty \in {"list", "tuple"} THEN Repr(v)
              ELSE IF v.ty = "none" THEN NaN ELSE v

ToCsv(df) ==
    [kind |-> "csv",
     header |-> [i \in 1..Len(df.index) |->
                    IF df.index[i] = "" THEN "Unnamed: 0" ELSE df.index[i]]
                \o df.columns,
     rows |-> [r \in 1..Len(df.rows) |->
                  [c \in 1..(Len(df.index) + Len(df.columns)) |->
                      CsvCell((df.rows[r].idx \o df.rows[r].vals)[c])]]]

i_cols == <<"sample_id", "iteration", "obj_id", "t">>

\* the elements of s that are in S, in the order of s
RECURSIVE SelectIn(_, _)
SelectIn(s, S) ==
    IF s = <<>> THEN <<>>
    ELSE IF Head(s) \in S THEN <<Head(s)>> \o SelectIn(Tail(s), S)
         ELSE SelectIn(Tail(s), S)

Range(s) == {s[i] : i \in 1..Len(s)}

PosOf(s, x) == CHOOSE i \in 1..Len(s) : s[i] = x

\* load_file for a .csv: read_csv, then set_index on the i_cols it finds; with
\* none of them the table keeps read_csv's unnamed 0..n-1 index
FromCsv(c) ==
    LET index == SelectIn(i_cols, Range(c.header))
        columns == SelectIn(c.header, Range(c.header) \ Range(i_cols))
    IN  IF index = <<>>
        THEN DF(<<"">>, c.header,
                [r \in 1..Len(c.rows) |-> Row(<<PyInt(r - 1)>>, c.rows[r])])
        ELSE DF(index, columns,
                [r \in 1..Len(c.rows) |->
                    Row([i \in 1..Len(index) |-> c.rows[r][PosOf(c.header, index[i])]],
                        [i \in 1..Len(columns) |->
                            c.rows[r][PosOf(c.header, columns[i])]])])

\* load_file: the object a file yields; None when reading it raised (the
\* exception is caught and printed)
load_file(file, content) ==
    LET ext == SplitLast(file, ".")
    IN  IF ext = <<"csv">> /\ content.kind = "csv" THEN FromCsv(content)
        ELSE IF ext = <<"json">> /\ content.kind = "json"
             THEN IF content.isdict THEN AttrDict(content.items) ELSE Val(content.v)
        ELSE Val(None)

\* ---------------------------------------------------------------- tables
NRows(df) == Len(df.rows)
HasCol(df, c) == c \in Range(df.columns)

\* the cell of row r under column or index level c, NaN when df has no c
Cell(df, r, c) ==
    IF c \in Range(df.columns) THEN df.rows[r].vals[PosOf(df.columns, c)]
    ELSE IF c \in Range(df.index) THEN df.rows[r].idx[PosOf(df.index, c)]
    ELSE NaN

\* df[c] = cells, in place: an existing column is overwritten, a new one is
\* appended
SetColumn(df, c, cells) ==
    IF HasCol(df, c)
    THEN [df EXCEPT !.rows = [r \in 1..NRows(df) |->
             [df.rows[r] EXCEPT !.vals[PosOf(df.columns, c)] = cells[r]]]]
    ELSE [df EXCEPT !.columns = df.columns \o <<c>>,
                    !.rows = [r \in 1..NRows(df) |->
                                [df.rows[r] EXCEPT !.vals = df.rows[r].vals \o <<cells[r]>>]]]

\* df[c] = v raises ValueError: a list or tuple whose length is not the
\* number of rows
SetItemFails(df, v) == v.ty \in {"list", "tuple"} /\ Len(v.l) # NRows(df)

\* df[c] = v: a scalar is written to every row, a list or tuple of the
\* table's length element by element
SetItem(df, c, v) ==
    SetColumn(df, c, [r \in 1..NRows(df) |->
                        IF v.ty \in {"list", "tuple"} THEN PyInt(v.l[r]) ELSE v])

\* df[keys], every key a column of df
SelectColumns(df, keys) ==
    [df EXCEPT !.columns = keys,
               !.rows = [r \in 1..NRows(df) |->
                           [df.rows[r] EXCEPT !.vals =
                               [i \in 1..Len(keys) |-> Cell(df, r, keys[i])]]]]

\* the column names reset_index gives the index levels
LevelNames(df) ==
    [i \in 1..Len(df.index) |->
        IF df.index[i] # "" THEN df.index[i]
        ELSE IF Len(df.index) = 1 THEN "index" ELSE "level"]

\* reset_index raises ValueError: a level's name is already a column
ResetIndexFails(df) == Range(LevelNames(df)) \cap Range(df.columns) # {}

\* df.reset_index(): the levels become the first columns, the index 0..n-1
ResetIndex(df) ==
    DF(<<"">>, LevelNames(df) \o df.columns,
       [r \in 1..NRows(df) |-> Row(<<PyInt(r - 1)>>, df.rows[r].idx \o df.rows[r].vals)])

\* df.set_index(names), every name a column of df
SetIndex(df, names) ==
    LET columns == SelectIn(df.columns, Range(df.columns) \ Range(names))
    IN  DF(names, columns,
           [r \in 1..NRows(df) |->
               Row([i \in 1..Len(names) |-> Cell(df, r, names[i])],
                   [i \in 1..Len(columns) |-> Cell(df, r, columns[i])])])

\* the names of a then those of b that a lacks (the columns of pd.concat)
UnionSeq(a, b) == a \o SelectIn(b, Range(b) \ Range(a))

\* the rows of df laid out under the given columns, NaN where df has none
RowsUnder(df, columns) ==
    [r \in 1..NRows(df) |->
        Row(df.rows[r].idx,
            [i \in 1..Len(columns) |->
                IF HasCol(df, columns[i]) THEN Cell(df, r, columns[i]) ELSE NaN])]

\* pd.concat([a, b]) of two tables with the same index names
ConcatRows(a, b) ==
    LET columns == UnionSeq(a.columns, b.columns)
    IN  DF(a.index, columns, RowsUnder(a, columns) \o RowsUnder(b, columns))

\* the row of dfp whose sample_id is that of row r of df (the label of row r
\* when df has a single index level), 0 when there is none
SampleRow(df, r, dfp) ==
    LET sid == IF Len(df.index) = 1 THEN df.rows[r].idx[1]
               ELSE Cell(df, r, "sample_id")
        hits == {q \in 1..NRows(dfp) : Cell(dfp, q, "sample_id") = sid}
    IN  IF hits = {} THEN 0 ELSE CHOOSE q \in hits : TRUE

\* pd.concat([df, dfp], axis=1), dfp indexed by sample_id: with a MultiIndex
\* df, dfp was reindexed on df's sample_id level and its columns are joined
\* by sample_id; with a single level the two are aligned on their labels,
\* and the rows of dfp that no row of df matches are added
JoinParameters(df, dfp) ==
    LET joined == [r \in 1..NRows(df) |->
                     Row(df.rows[r].idx,
                         df.rows[r].vals \o
                           [i \in 1..Len(dfp.columns) |->
                               IF SampleRow(df, r, dfp) = 0 THEN NaN
                               ELSE dfp.rows[SampleRow(df, r, dfp)].vals[i]])]
        unmatched == SelectIn([q \in 1..NRows(dfp) |-> q],
                              {q \in 1..NRows(dfp) :
                                 \A r \in 1..NRows(df) : SampleRow(df, r, dfp) # q})
        extra == [j \in 1..Len(unmatched) |->
                    Row(dfp.rows[unmatched[j]].idx,
                        [i \in 1..Len(df.columns) |-> NaN]
                          \o dfp.rows[unmatched[j]].vals)]
    IN  DF(df.index, df.columns \o dfp.columns,
           IF Len(df.index) = 1 THEN joined \o extra ELSE joined)

\* pd.DataFrame()
EmptyFrame == DF(<<"">>, <<>>, <<>>)

\* df.shape == (0, 0)
ShapeIsZero(df) == NRows(df) = 0 /\ df.columns = <<>>

\* ---------------------------------------------------------------- arrangement
\* the arguments that are False, True, a key or a list of keys
SelFalse == [sel |-> "False", keys |-> <<>>]
SelTrue == [sel |-> "True", keys |-> <<>>]
SelKeys(keys) == [sel |-> "keys", keys |-> keys]

\* tools.make_list: a key or a list of keys as a list
make_list(x) == x.keys

\* the order in which the entries of a mapping were inserted (Python keeps
\* it; the records of the model are built in this order)
KeyOrder == <<"Model", "Agent", "x", "w", "y", "z">>

\* the string keys of a mapping, in insertion order
OrderedKeys(keys) == SelectIn(KeyOrder, keys)

\* what a call returns: a status ("ok" or the exception raised), the object
\* returned, the record after the call, and the entry of the record that the
\* returned table is (aliases), <<>> when it is a new table
Ret(status, ret, r, alias) == [status |-> status, ret |-> ret, rec |-> r, alias |-> alias]

IsNone(e) == e.ty = "value" /\ e.v = None

\* self.log[key], log being there
LogHas(r, key) == K("log") \in DOMAIN r /\ PyStr(key) \in DOMAIN r[K("log")].items
LogGet(r, key) == r[K("log")].items[PyStr(key)]

\* indexes.insert(-1, name)
InsertBeforeLast(names, name) ==
    IF names = <<>> THEN <<name>>
    ELSE SubSeq(names, 1, Len(names) - 1) \o <<name, names[Len(names)]>>

\* pd.concat(df_dict) followed by set_names('obj_type', level=0); keys in
\* insertion order, all tables with the index names of the first
ConcatDict(df_dict, keys) ==
    LET RECURSIVE cols(_)
        cols(ks) == IF ks = <<>> THEN <<>>
                    ELSE UnionSeq(df_dict[K(Head(ks))].columns, cols(Tail(ks)))
        columns == cols(keys)
        RECURSIVE rows(_)
        rows(ks) ==
            IF ks = <<>> THEN <<>>
            ELSE [r \in 1..NRows(df_dict[K(Head(ks))]) |->
                     Row(<<PyStr(Head(ks))>> \o df_dict[K(Head(ks))].rows[r].idx,
                         RowsUnder(df_dict[K(Head(ks))], columns)[r].vals)]
                 \o rows(Tail(ks))
    IN  DF(<<"obj_type">> \o df_dict[K(Head(keys))].index, columns, rows(keys))

\* the concatenation without the obj_id level given to the table of the
\* model type
combine_vars_concat_no_obj_id(r, obj_types, var_keys) ==
    LET vs == r[K("variables")]
        byvar == {k \in DOMAIN vs.items :
                    var_keys.sel = "True"
                    \/ \E i \in 1..Len(make_list(var_keys)) :
                          HasCol(vs.items[k], make_list(var_keys)[i])}
        bytype == {k \in byvar :
                     obj_types.sel = "True"
                     \/ \E i \in 1..Len(make_list(obj_types)) :
                           k = K(make_list(obj_types)[i])}
    IN
    IF ~LogHas(r, "model_type") THEN Ret("KeyError", Val(None), r, <<>>)
    ELSE
    LET model_type == K(LogGet(r, "model_type").s)
        hasmodel == model_type \in bytype
        \* df['obj_id'] = 0 writes into the table the record holds
        stored == SetItem(vs.items[model_type], "obj_id", PyInt(0))
        r2 == IF hasmodel
              THEN [r EXCEPT ![K("variables")].items[model_type] = stored]
              ELSE r
        df_dict == [k \in bytype |-> vs.items[k]]
        keys == OrderedKeys({k[1] : k \in bytype})
    IN
    IF bytype = {} THEN Ret("ok", Val(None), r2, <<>>)
    ELSE LET df == ConcatDict(df_dict, keys) IN
    IF var_keys.sel = "True" THEN Ret("ok", df, r2, <<>>)
    ELSE IF ~(Range(make_list(var_keys)) \subseteq Range(df.columns))
         THEN Ret("KeyError", Val(None), r2, <<>>)
    ELSE Ret("ok", SelectColumns(df, make_list(var_keys)), r2, <<>>)

\* DataDict._combine_vars, from "Remove dataframes ..." on: the variables
\* section is a mapping of tables that are filtered and concatenated
combine_vars_concat(r, obj_types, var_keys) ==
    LET vs == r[K("variables")]
        byvar == {k \in DOMAIN vs.items :
                    var_keys.sel = "True"
                    \/ \E i \in 1..Len(make_list(var_keys)) :
                          HasCol(vs.items[k], make_list(var_keys)[i])}
        bytype == {k \in byvar :
                     obj_types.sel = "True"
                     \/ \E i \in 1..Len(make_list(obj_types)) :
                           k = K(make_list(obj_types)[i])}
    IN
    IF ~LogHas(r, "model_type") THEN Ret("KeyError", Val(None), r, <<>>)
    ELSE
    LET model_type == K(LogGet(r, "model_type").s)
        hasmodel == model_type \in bytype
        \* df['obj_id'] = 0 writes into the table the record holds
        stored == SetItem(vs.items[model_type], "obj_id", PyInt(0))
        r2 == IF hasmodel
              THEN [r EXCEPT ![K("variables")].items[model_type] = stored]
              ELSE r
        df_dict == [k \in bytype |->
                      IF k = model_type
                      THEN SetIndex(ResetIndex(stored),
                                    InsertBeforeLast(vs.items[model_type].index, "obj_id"))
                      ELSE vs.items[k]]
        keys == OrderedKeys({k[1] : k \in bytype})
    IN
    IF bytype = {} THEN Ret("ok", Val(None), r2, <<>>)
    ELSE LET df == ConcatDict(df_dict, keys) IN
    IF var_keys.sel = "True" THEN Ret("ok", df, r2, <<>>)
    ELSE IF ~(Range(make_list(var_keys)) \subseteq Range(df.columns))
         THEN Ret("KeyError", Val(None), r2, <<>>)
    ELSE Ret("ok", SelectColumns(df, make_list(var_keys)), r2, <<>>)

\* combine_vars without the return of a single child: every nested record is
\* concatenated
combine_vars_no_single(r, obj_types, var_keys) ==
    IF K("variables") \notin DOMAIN r THEN Ret("ok", Val(None), r, <<>>)
    ELSE IF IsDataFrame(r[K("variables")])
    THEN Ret("ok", r[K("variables")], r, <<K("variables")>>)
    ELSE IF ~IsDict(r[K("variables")]) THEN Ret("TypeError", Val(None), r, <<>>)
    ELSE combine_vars_concat(r, obj_types, var_keys)

\* DataDict._combine_vars(obj_types, var_keys) on record r
combine_vars(r, obj_types, var_keys) ==
    IF K("variables") \notin DOMAIN r THEN Ret("ok", Val(None), r, <<>>)
    ELSE LET vs == r[K("variables")] IN
    IF IsDataFrame(vs) THEN Ret("ok", vs, r, <<K("variables")>>)
    ELSE IF IsDataDict(vs) /\ Cardinality(DOMAIN vs.items) = 1
    THEN LET k == CHOOSE k \in DOMAIN vs.items : TRUE
         IN  Ret("ok", vs.items[k], r, <<K("variables"), k>>)
    ELSE IF ~IsDict(vs) THEN Ret("TypeError", Val(None), r, <<>>)
    ELSE combine_vars_concat(r, obj_types, var_keys)

\* DataDict._dict_pars_to_df(dict_pars), dict_pars the items of a mapping
dict_pars_to_df(r, dict_pars) ==
    LET n == IF LogHas(r, "sample_size") THEN LogGet(r, "sample_size").n ELSE 1
        keys == OrderedKeys({k.s : k \in DOMAIN dict_pars})
    IN  DF(<<"sample_id">>, keys,
           [i \in 1..n |-> Row(<<PyInt(i - 1)>>,
                               [c \in 1..Len(keys) |-> dict_pars[PyStr(keys[c])]])])

\* _combine_pars, the loop `for k, v in constants.items(): dfp[k] = v`
RECURSIVE AddConstants(_, _, _)
AddConstants(dfp, constants, keys) ==
    IF keys = <<>> THEN dfp
    ELSE AddConstants(SetItem(dfp, Head(keys), constants[PyStr(Head(keys))]),
                      constants, Tail(keys))

\* DataDict._combine_pars(sample, constants) on record r
combine_pars(r, sample, constants) ==
    IF K("parameters") \notin DOMAIN r THEN Ret("ok", Val(None), r, <<>>)
    ELSE LET parameters == r[K("parameters")] IN
    IF IsDataDict(parameters)
    THEN LET hassample == sample /\ K("sample") \in DOMAIN parameters.items
             hasconst == constants /\ K("constants") \in DOMAIN parameters.items
             cs == parameters.items[K("constants")].items
         IN  IF hassample /\ hasconst
                /\ \E k \in DOMAIN cs : SetItemFails(parameters.items[K("sample")], cs[k])
             THEN Ret("ValueError", Val(None), r, <<>>)
             ELSE LET dfp == IF hassample /\ hasconst
                             THEN AddConstants(parameters.items[K("sample")], cs,
                                               OrderedKeys({k.s : k \in DOMAIN cs}))
                             ELSE IF hassample THEN parameters.items[K("sample")]
                             ELSE IF hasconst THEN dict_pars_to_df(r, cs)
                             ELSE EmptyFrame
                  IN  IF ShapeIsZero(dfp) THEN Ret("ok", Val(None), r, <<>>)
                      ELSE Ret("ok", dfp, r, <<>>)
    ELSE IF IsDict(parameters) /\ constants
    THEN LET dfp == dict_pars_to_df(r, parameters.items)
         IN  IF ShapeIsZero(dfp) THEN Ret("ok", Val(None), r, <<>>)
             ELSE Ret("ok", dfp, r, <<>>)
    ELSE Ret("TypeError", Val(None), r, <<>>)

\* the record with the entry at `alias` replaced by df
Stored(r, alias, df) ==
    IF Len(alias) = 1 THEN [r EXCEPT ![alias[1]] = df]
    ELSE IF Len(alias) = 2 THEN [r EXCEPT ![alias[1]].items[alias[2]] = df]
    ELSE r

\* arrange, step 4, `for k, v in dfp.items(): df[k] = v[0]`
RECURSIVE AssignColumns(_, _, _)
AssignColumns(df, dfp, keys) ==
    IF keys = <<>> THEN df
    ELSE AssignColumns(SetItem(df, Head(keys), Cell(dfp, 1, Head(keys))), dfp, Tail(keys))

\* arrange, step 6
arrange_reset(status, df, r, alias, index) ==
    IF status # "ok" \/ IsNone(df) THEN Ret(status, Val(None), r, <<>>)
    ELSE IF index THEN Ret("ok", df, r, alias)
    ELSE IF ResetIndexFails(df) THEN Ret("ValueError", Val(None), r, <<>>)
    ELSE Ret("ok", ResetIndex(df), r, <<>>)

\* arrange, step 4, the second half: df combined with the parameters dfp
arrange_pars(df, alias, dfp, r, index) ==
    IF IsNone(dfp) THEN arrange_reset("ok", df, r, alias, index)
    ELSE IF IsNone(df) THEN arrange_reset("ok", dfp, r, <<>>, index)
    ELSE IF NRows(dfp) > 1
    THEN IF Len(df.index) > 1 /\ "sample_id" \notin Range(df.index)
         THEN Ret("KeyError", Val(None), r, <<>>)
         ELSE arrange_reset("ok", JoinParameters(df, dfp), r, <<>>, index)
    ELSE IF NRows(dfp) = 0 THEN Ret("KeyError", Val(None), r, <<>>)
    ELSE IF \E i \in 1..Len(dfp.columns) : SetItemFails(df, dfp.rows[1].vals[i])
         THEN \* the columns before the one that raises are already written
              LET bad == CHOOSE i \in 1..Len(dfp.columns) :
                            /\ SetItemFails(df, dfp.rows[1].vals[i])
                            /\ \A j \in 1..(i - 1) : ~SetItemFails(df, dfp.rows[1].vals[j])
                  df1 == AssignColumns(df, dfp, SubSeq(dfp.columns, 1, bad - 1))
              IN  Ret("ValueError", Val(None), Stored(r, alias, df1), <<>>)
    ELSE LET df2 == AssignColumns(df, dfp, dfp.columns)
         IN  arrange_reset("ok", df2, Stored(r, alias, df2), alias, index)

\* arrange, step 4, the first half: variables dfv and reporters dfm combined
arrange_rows(dfv, valias, dfm, malias, dfp, r, index) ==
    IF ~IsNone(dfv) /\ ~IsNone(dfm)
    THEN IF ResetIndexFails(dfm) \/ ResetIndexFails(dfv) THEN Ret("ValueError", Val(None), r, <<>>)
         ELSE IF "" \in Range(dfv.index) THEN Ret("KeyError", Val(None), r, <<>>)
         ELSE arrange_pars(SetIndex(ConcatRows(ResetIndex(dfm), ResetIndex(dfv)), dfv.index),
                           <<>>, dfp, r, index)
    ELSE IF ~IsNone(dfv) THEN arrange_pars(dfv, valias, dfp, r, index)
    ELSE IF ~IsNone(dfm) THEN arrange_pars(dfm, malias, dfp, r, index)
    ELSE arrange_pars(Val(None), <<>>, dfp, r, index)

\* arrange, step 3, asking combine_pars for the constants also when
\* parameters is True
arrange_step3_all_constants(dfv, valias, dfm, malias, parameters, r, index) ==
    IF parameters.sel = "False"
    THEN arrange_rows(dfv, valias, dfm, malias, Val(None), r, index)
    ELSE LET p == combine_pars(r, TRUE, TRUE) IN
    IF p.status # "ok" THEN Ret(p.status, Val(None), r, <<>>)
    ELSE IF parameters.sel = "True"
    THEN arrange_rows(dfv, valias, dfm, malias, p.ret, r, index)
    ELSE IF IsNone(p.ret) THEN Ret("TypeError", Val(None), r, <<>>)
    ELSE IF ~(Range(make_list(parameters)) \subseteq Range(p.ret.columns))
         THEN Ret("KeyError", Val(None), r, <<>>)
    ELSE arrange_rows(dfv, valias, dfm, malias,
                      SelectColumns(p.ret, make_list(parameters)), r, index)

\* arrange, step 3: the parameters
arrange_step3(dfv, valias, dfm, malias, parameters, r, index) ==
    IF parameters.sel = "False"
    THEN arrange_rows(dfv, valias, dfm, malias, Val(None), r, index)
    ELSE LET p == combine_pars(r, TRUE, parameters.sel # "True") IN
    IF p.status # "ok" THEN Ret(p.status, Val(None), r, <<>>)
    ELSE IF parameters.sel = "True"
    THEN arrange_rows(dfv, valias, dfm, malias, p.ret, r, index)
    ELSE IF IsNone(p.ret) THEN Ret("TypeError", Val(None), r, <<>>)
    ELSE IF ~(Range(make_list(parameters)) \subseteq Range(p.ret.columns))
         THEN Ret("KeyError", Val(None), r, <<>>)
    ELSE arrange_rows(dfv, valias, dfm, malias,
                      SelectColumns(p.ret, make_list(parameters)), r, index)

\* arrange, step 2: the reporters
arrange_step2(dfv, valias, reporters, parameters, r, index) ==
    IF reporters.sel = "False"
    THEN arrange_step3(dfv, valias, Val(None), <<>>, parameters, r, index)
    \* self.reporters: attribute access to an entry the record does not hold
    ELSE IF K("reporters") \notin DOMAIN r THEN Ret("AttributeError", Val(None), r, <<>>)
    ELSE IF reporters.sel = "True"
    THEN arrange_step3(dfv, valias, r[K("reporters")], <<K("reporters")>>,
                       parameters, r, index)
    ELSE IF ~(Range(make_list(reporters)) \subseteq Range(r[K("reporters")].columns))
         THEN Ret("KeyError", Val(None), r, <<>>)
    ELSE arrange_step3(dfv, valias,
                       SelectColumns(r[K("reporters")], make_list(reporters)), <<>>,
                       parameters, r, index)

\* DataDict.arrange(variables, reporters, parameters, obj_types, index) on r
arrange(r, variables, reporters, parameters, obj_types, index) ==
    IF variables.sel = "False"
    THEN arrange_step2(Val(None), <<>>, reporters, parameters, r, index)
    ELSE LET v == combine_vars(r, obj_types, variables)
         IN  IF v.status # "ok" THEN v
             ELSE arrange_step2(v.ret, v.alias, reporters, parameters, v.rec, index)

\* ---------------------------------------------------------------- analysis
\* the names a function of datadict.py finds at module level: the imports and
\* the module's own classes and functions
ModuleNames ==
    {"pd", "os", "listdir", "makedirs", "getmtime", "join", "AttrDict",
     "make_list", "AgentpyError", "json", "np", "NpEncoder", "_last_exp_id",
     "DataDict", "load"}

\* no reporters argument (None)
SelNone == [sel |-> "None", keys |-> <<>>]

\* {k: v for k, v in param_ranges.items() if isinstance(v, tuple)}: the keys
\* kept, in the order of the mapping
param_ranges_tuples(param_ranges) ==
    SelectIn(KeyOrder, {k.s : k \in {q \in DOMAIN param_ranges.items :
                                       param_ranges.items[q].ty = "tuple"}})

\* an index SALib.analyze.sobol.analyze computed
sobol_analyze == [ty |-> "float", n |-> 0, s |-> "Si", l |-> <<>>]

\* pd.concat of the tables of the reporters, each DataFrame(s) with the columns
\* S1 and ST and _sobol_set_df_index(df, p_keys, reporter) applied
sobol_frames(reporters, p_keys) ==
    DF(<<"reporter", "parameter">>, <<"S1", "ST">>,
       [i \in 1..(Len(reporters) * Len(p_keys)) |->
           Row(<<PyStr(reporters[((i - 1) \div Len(p_keys)) + 1]),
                 PyStr(p_keys[((i - 1) % Len(p_keys)) + 1])>>,
               <<sobol_analyze, sobol_analyze>>)])

\* the columns S2 joined to a table of first-order indices, under the column
\* index (order, parameter)
sobol_second_order(df, p_keys) ==
    DF(df.index, df.columns \o [i \in 1..Len(p_keys) |-> "S2"],
       [i \in 1..Len(df.rows) |->
           Row(df.rows[i].idx,
               df.rows[i].vals \o [j \in 1..Len(p_keys) |-> sobol_analyze])])

\* DataDict.calc_sobol(param_ranges, reporters, calc_second_order) on r.  A
\* name that is neither local nor in ModuleNames raises NameError where it is
\* first read.
calc_sobol(r, param_ranges, reporters, calc_second_order) ==
    IF "param_tuples_to_salib" \notin ModuleNames
    THEN Ret("NameError", Val(None), r, <<>>)
    ELSE IF "output" \notin ModuleNames
    THEN Ret("NameError", Val(None), r, <<>>)
    ELSE LET names == IF reporters.sel = "None" THEN r[K("reporters")].columns
                      ELSE reporters.keys
             p == combine_pars(r, TRUE, FALSE)
         IN  IF p.status # "ok" THEN Ret(p.status, Val(None), r, <<>>)
             ELSE IF IsNone(p.ret) THEN Ret("AttributeError", Val(None), r, <<>>)
             ELSE IF ~(Range(names) \subseteq Range(r[K("reporters")].columns))
             THEN Ret("KeyError", Val(None), r, <<>>)
             ELSE IF names # <<>> /\ "_sobol_set_df_index" \notin ModuleNames
             THEN Ret("NameError", Val(None), r, <<>>)
             ELSE IF names = <<>>
                     \/ Len(p.ret.columns) # Len(param_ranges_tuples(param_ranges))
             THEN Ret("ValueError", Val(None), r, <<>>)
             ELSE LET si == sobol_frames(names, p.ret.columns)
                      out2 == IF calc_second_order
                              THEN sobol_second_order(si, p.ret.columns) ELSE si
                      r2 == (K("sensitivity") :> out2)
                            @@ (K("sensitivity_conf") :> out2) @@ r
                  IN  Ret("ok", DD(r2), r2, <<>>)

\* ---------------------------------------------------------------- records
\* index is sample_id 0..n-1, one column `col` holding v0 + sample_id
SampleTable(n, col, v0) ==
    DF(<<"sample_id">>, <<col>>,
       [i \in 1..n |-> Row(<<PyInt(i - 1)>>, <<PyInt(v0 + i - 1)>>)])

\* one agent (obj_id 1) over t = 0..1 in a single run, column `col`
AgentTable(col) ==
    DF(<<"obj_id", "t">>, <<col>>,
       [i \in 1..2 |-> Row(<<PyInt(1), PyInt(i - 1)>>, <<PyInt(20 + i)>>)])

\* Records handed to save.  The absent exp_name argument is <<>>, the absent
\* exp_id argument is 0.
StoreRecords ==
    { (K("log") :> Dict(PyStr("model_type") :> PyStr("Model")))
        @@ (K("parameters") :> DD((K("sample") :> SampleTable(2, "x", 10))
                                  @@ (K("constants") :> Dict(PyStr("y") :> PyInt(1)))))
        @@ (K("variables") :> DD(K("Agent") :> AgentTable("v")))
        @@ (K("reporters") :> SampleTable(2, "out", 100)),
      K("info") :> DD(K("a") :> Dict(PyStr("y") :> PyInt(1))),
      (K("reporters") :> SampleTable(2, "out", 100)) @@ (K("model") :> Val(Obj)),
      (K("reporters") :> SampleTable(2, "out", 100))
        @@ (K("parameters") :> DD(K("constants") :> Dict(PyStr("y") :> Obj))) }

\* Records the arrangement engine works on.  runs = 0 is a single run (no
\* sample_size in the log, tables without a sample_id level); runs = N > 0 is
\* an experiment over N samples.
RunRows(runs) == IF runs = 0 THEN 1 ELSE runs

Log(runs) ==
    Dict((PyStr("model_type") :> PyStr("Model"))
         @@ (IF runs > 0 THEN PyStr("sample_size") :> PyInt(runs) ELSE Empty))

\* the reporters: one row per run, column out
ReportersTable(runs) ==
    IF runs = 0 THEN DF(<<"">>, <<"out">>, <<Row(<<PyInt(0)>>, <<PyInt(100)>>)>>)
    ELSE SampleTable(runs, "out", 100)

\* recorded variables of one object type over t = 0..1: indexed by
\* (sample_id,) (obj_id,) t; agents have obj_id 1, the model has no obj_id
VarTable(runs, agents, col) ==
    DF((IF runs > 0 THEN <<"sample_id">> ELSE <<>>)
         \o (IF agents THEN <<"obj_id">> ELSE <<>>) \o <<"t">>,
       <<col>>,
       [i \in 1..(2 * RunRows(runs)) |->
           Row((IF runs > 0 THEN <<PyInt((i - 1) \div 2)>> ELSE <<>>)
                 \o (IF agents THEN <<PyInt(1)>> ELSE <<>>) \o <<PyInt((i - 1) % 2)>>,
               <<PyInt(10 * ((i - 1) \div 2) + ((i - 1) % 2))>>)])

Constants1 == Dict(PyStr("y") :> PyInt(1))
Constants2 == Dict((PyStr("y") :> PyInt(1)) @@ (PyStr("z") :> PyList(<<7, 8>>)))

\* the shapes of the parameters section, each a set of <<key, entry>> pairs
\* (none when the section is absent)
ParameterShapes(runs) ==
    << {},
       {<<K("parameters"), Constants1>>},
       {<<K("parameters"), Dict(Empty)>>},
       {<<K("parameters"), Constants2>>},
       {<<K("parameters"), DD(K("constants") :> Constants1)>>},
       {<<K("parameters"), DD(Empty)>>},
       {<<K("parameters"), Val(PyInt(5))>>} >>
    \o (IF runs = 0 THEN <<>>
        ELSE << {<<K("parameters"), DD(K("sample") :> SampleTable(runs, "x", 10))>>},
                {<<K("parameters"), DD((K("sample") :> SampleTable(runs, "x", 10))
                                       @@ (K("constants") :> Constants1))>>},
                {<<K("parameters"), DD((K("sample") :> SampleTable(runs, "x", 10))
                                       @@ (K("constants") :> Constants2))>>} >>)

VariableShapes(runs) ==
    << {},
       {<<K("variables"), VarTable(runs, TRUE, "v")>>},
       {<<K("variables"), DD(K("Agent") :> VarTable(runs, TRUE, "v"))>>},
       {<<K("variables"), DD((K("Model") :> VarTable(runs, FALSE, "m"))
                             @@ (K("Agent") :> VarTable(runs, TRUE, "v")))>>},
       {<<K("variables"), DD(K("Model") :> VarTable(runs, FALSE, "m"))>>},
       {<<K("variables"), DD(Empty)>>} >>

ReporterShapes(runs) ==
    << {}, {<<K("reporters"), ReportersTable(runs)>>}, {<<K("reporters"), EmptyFrame>>} >>

ArrangeRecord(runs, p, v, m) ==
    PairsToFn({<<K("log"), Log(runs)>>} \cup ParameterShapes(runs)[p]
              \cup VariableShapes(runs)[v] \cup ReporterShapes(runs)[m])

NoName == <<>>
NoId == 0
ExpNames == {<<"x">>, <<"x", " ", "y">>}

\* no save or load call is waiting for its caller
NoCall == [op |-> "none", name |-> NoName, id |-> NoId]
NoOut == [call |-> NoCall, status |-> "ok", dir |-> <<>>, loaded |-> Empty, warned |-> {}]

\* ---------------------------------------------------------------- persistence
\* listdir(path) of the base path
listdir == DOMAIN fs

exp_dirs(name, dirs) == {s \in dirs : Contains(name, s)}

\* _last_exp_id raises ValueError: int() of a last part that is no number
last_exp_id_raises(name, dirs) ==
    \E s \in exp_dirs(name, dirs) : ~IsInt(SplitLast(s, "_"))

\* _last_exp_id(name, path), dirs = listdir(path)
last_exp_id(name, dirs) ==
    IF exp_dirs(name, dirs) = {} THEN 0
    ELSE Max({StrToInt(SplitLast(s, "_")) : s \in exp_dirs(name, dirs)})

\* f'{path}/{exp_name}_{exp_id}' below the base path
ExpDir(exp_name, exp_id) == exp_name \o <<"_">> \o IntToStr(exp_id)

\* save: the exp_name used when none is passed
DefaultName(r) ==
    IF K("log") \in DOMAIN r /\ IsDict(r[K("log")])
       /\ PyStr("model_type") \in DOMAIN r[K("log")].items
    THEN K(r[K("log")].items[PyStr("model_type")].s)
    ELSE K("Unnamed")

\* save, one top-level entry that does not abort the call: the files written
\* for it, as <<file name, content>> pairs
EntryFiles(r, key) ==
    LET output == r[key]
    IN  IF IsDataFrame(output) THEN {<<key \o <<".", "csv">>, ToCsv(output)>>}
        ELSE IF IsDataDict(output)
        THEN {<<key \o <<"_">> \o k \o <<".", "csv">>, ToCsv(output.items[k])>> :
                 k \in {k \in DOMAIN output.items : IsDataFrame(output.items[k])}}
             \cup
             {<<key \o <<"_">> \o k \o <<".", "json">>, JsonDump(output.items[k])>> :
                 k \in {k \in DOMAIN output.items :
                          ~IsDataFrame(output.items[k]) /\ IsDict(output.items[k])}}
        ELSE IF JsonFails(output) THEN {}
        ELSE {<<key \o <<".", "json">>, JsonDump(output)>>}

\* save: the top-level entries whose json.dump raises inside the try block
Warned(r) == {key \in DOMAIN r :
                ~IsDataFrame(r[key]) /\ ~IsDataDict(r[key]) /\ JsonFails(r[key])}

\* save: the children of nested record `key` whose json.dump raises; it is
\* not inside a try block, so the TypeError leaves save
RaisingChildren(r, key) ==
    IF IsDataDict(r[key])
    THEN {k \in DOMAIN r[key].items :
            ~IsDataFrame(r[key].items[k]) /\ IsDict(r[key].items[k])
            /\ JsonFails(r[key].items[k])}
    ELSE {}

Raising(r) == {key \in DOMAIN r : RaisingChildren(r, key) # {}}

\* save: the sets of files a call can leave in the new directory.  A record
\* is iterated in insertion order, which the model does not keep, so a call
\* that raises at child k of entry `key` may have written any of the entries
\* that do not raise, and any of the other children of `key`.
AbortedFiles(r, key, k, before, sibs) ==
    UNION {EntryFiles(r, k2) : k2 \in before}
    \cup EntryFiles([r EXCEPT ![key] = DD([c \in sibs |-> r[key].items[c]])], key)
    \cup {<<key \o <<"_">> \o k \o <<".", "json">>, PartialFile>>}

SavedFiles(r) ==
    IF Raising(r) = {}
    THEN {UNION {EntryFiles(r, key) : key \in DOMAIN r}}
    ELSE UNION {
           UNION {
             {AbortedFiles(r, key, k, before, sibs) :
                before \in SUBSET ((DOMAIN r) \ Raising(r)),
                sibs \in SUBSET ((DOMAIN r[key].items) \ RaisingChildren(r, key))} :
             k \in RaisingChildren(r, key)} :
           key \in Raising(r)}

\* save: the sets of entries a call can have warned about: all of Warned(r)
\* when the loop ends, those met before the TypeError when it does not
WarnedBefore(r) == IF Raising(r) = {} THEN {Warned(r)} ELSE SUBSET Warned(r)

\* save(exp_name, exp_id, path)
Save(r, exp_name, exp_id) ==
    LET name == Replace(IF exp_name = NoName THEN DefaultName(r) ELSE exp_name,
                        <<" ">>, <<"_">>)
        raises == exp_id = NoId /\ last_exp_id_raises(name, listdir)
        id == IF exp_id = NoId THEN last_exp_id(name, listdir) + 1 ELSE exp_id
        path == ExpDir(name, id)
        call == [op |-> "save", name |-> exp_name, id |-> exp_id]
    IN  /\ out = NoOut
        /\ Cardinality(DOMAIN fs) < MaxDirs
        /\ base' = TRUE
        /\ UNCHANGED <<rec, res>>
        /\ IF raises
           THEN /\ out' = [call |-> call, status |-> "ValueError", dir |-> <<>>,
                           loaded |-> Empty, warned |-> {}]
                /\ UNCHANGED <<fs, clock>>
           ELSE IF path \in DOMAIN fs
           THEN /\ out' = [call |-> call, status |-> "FileExistsError", dir |-> path,
                           loaded |-> Empty, warned |-> {}]
                /\ UNCHANGED <<fs, clock>>
           ELSE \E files \in SavedFiles(r), warned \in WarnedBefore(r) :
                /\ fs' = (path :> [files |-> PairsToFn(files), mtime |-> clock + 1,
                                   src |-> r]) @@ fs
                /\ clock' = clock + 1
                /\ out' = [call |-> call,
                           status |-> IF Raising(r) = {} THEN "ok" ELSE "TypeError",
                           dir |-> path, loaded |-> Empty, warned |-> warned]

\* _load: file[:-(len(ext) + 1)]
Stem(file) == SubSeq(file, 1, Len(file) - Len(SplitLast(file, ".")) - 1)

VariablesPrefix == <<"variables", "_">>
ParametersPrefix == <<"parameters", "_">>

\* _load, the loop over listdir(path): the items of the record it builds
LoadedItems(files) ==
    LET vfiles == {f \in DOMAIN files : Contains(VariablesPrefix, f)}
        pfiles == {f \in DOMAIN files \ vfiles : Contains(ParametersPrefix, f)}
        others == (DOMAIN files \ vfiles) \ pfiles
        nested(fileset, prefix) ==
            DD(PairsToFn({<<Replace(Stem(f), prefix, <<>>), load_file(f, files[f])>> :
                            f \in fileset}))
    IN  PairsToFn(
            {<<Stem(f), load_file(f, files[f])>> : f \in others}
            \cup (IF vfiles = {} THEN {}
                  ELSE {<<K("variables"), nested(vfiles, VariablesPrefix)>>})
            \cup (IF pfiles = {} THEN {}
                  ELSE {<<K("parameters"), nested(pfiles, ParametersPrefix)>>}))

\* max(paths, key=getmtime): the directory modified last
LatestExp == CHOOSE d \in DOMAIN fs : \A e \in DOMAIN fs : fs[e].mtime <= fs[d].mtime

\* load(exp_name, exp_id, path) = DataDict()._load(exp_name, exp_id, path)
Load(exp_name, exp_id) ==
    LET call == [op |-> "load", name |-> exp_name, id |-> exp_id]
        fail(status) == out' = [call |-> call, status |-> status, dir |-> <<>>,
                                loaded |-> Empty, warned |-> {}]
        name == Replace(IF exp_name = NoName THEN RSplitHead(LatestExp, "_")
                        ELSE exp_name, <<" ">>, <<"_">>)
        id == IF exp_id = NoId THEN last_exp_id(name, listdir) ELSE exp_id
        path == ExpDir(name, id)
    IN  /\ out = NoOut
        /\ UNCHANGED <<base, fs, clock, rec, res>>
        /\ IF exp_name = NoName /\ ~base THEN fail("FileNotFoundError")
           ELSE IF exp_name = NoName /\ DOMAIN fs = {} THEN fail("ValueError")
           ELSE IF exp_id = NoId /\ ~base THEN fail("FileNotFoundError")
           ELSE IF exp_id = NoId /\ last_exp_id_raises(name, listdir)
                THEN fail("ValueError")
           ELSE IF exp_id = NoId /\ id = 0 THEN fail("FileNotFoundError")
           ELSE IF path \notin DOMAIN fs
                THEN out' = [call |-> call, status |-> "FileNotFoundError",
                             dir |-> path, loaded |-> Empty, warned |-> {}]
           ELSE out' = [call |-> call, status |-> "ok", dir |-> path,
                        loaded |-> LoadedItems(fs[path].files), warned |-> {}]

\* ---------------------------------------------------------------- behaviour
NoRecord == Empty
ArrCall(op, variables, reporters, parameters, obj_types, index, sample, constants) ==
    [op |-> op, variables |-> variables, reporters |-> reporters,
     parameters |-> parameters, obj_types |-> obj_types, index |-> index,
     sample |-> sample, constants |-> constants]
NoResult ==
    [call |-> ArrCall("none", SelFalse, SelFalse, SelFalse, SelTrue, FALSE, FALSE, FALSE),
     status |-> "ok", ret |-> Val(None), pre |-> NoRecord]

\* a call of the arrangement engine on the record: its result, and the record
\* as the call leaves it.  The caller takes the result (Drop) before the next
\* call.
Returns(call, got) ==
    /\ res = NoResult
    /\ res' = [call |-> call, status |-> got.status, ret |-> got.ret, pre |-> rec]
    /\ rec' = got.rec
    /\ UNCHANGED <<base, fs, clock, out>>

VarSelections == {SelFalse, SelTrue, SelKeys(<<"v">>)}
RepSelections == {SelFalse, SelTrue, SelKeys(<<"out">>)}
ParSelections == {SelFalse, SelTrue, SelKeys(<<"x">>), SelKeys(<<"y">>),
                  SelKeys(<<"x", "y">>)}
TypeSelections == {SelTrue, SelKeys(<<"Agent">>)}

CombineVars(obj_types, var_keys) ==
    Returns(ArrCall("_combine_vars", var_keys, SelFalse, SelFalse, obj_types, FALSE,
                    FALSE, FALSE),
            combine_vars(rec, obj_types, var_keys))

CombinePars(sample, constants) ==
    Returns(ArrCall("_combine_pars", SelFalse, SelFalse, SelFalse, SelTrue, FALSE,
                    sample, constants),
            combine_pars(rec, sample, constants))

Arrange(variables, reporters, parameters, obj_types, index) ==
    Returns(ArrCall("arrange", variables, reporters, parameters, obj_types, index,
                    FALSE, FALSE),
            arrange(rec, variables, reporters, parameters, obj_types, index))

\* the caller is done with the returned object
Drop ==
    /\ res # NoResult
    /\ res' = NoResult
    /\ UNCHANGED <<base, fs, clock, out, rec>>

\* arrange_reporters()
ArrangeReporters ==
    Returns(ArrCall("arrange_reporters", SelFalse, SelTrue, SelTrue, SelTrue, FALSE,
                    FALSE, FALSE),
            arrange(rec, SelFalse, SelTrue, SelTrue, SelTrue, FALSE))

\* arrange_variables()
ArrangeVariables ==
    Returns(ArrCall("arrange_variables", SelTrue, SelFalse, SelTrue, SelTrue, FALSE,
                    FALSE, FALSE),
            arrange(rec, SelTrue, SelFalse, SelTrue, SelTrue, FALSE))

\* calc_sobol(param_ranges, reporters, calc_second_order)
SobolCall(param_ranges, reporters, calc_second_order) ==
    [op |-> "calc_sobol", variables |-> SelFalse, reporters |-> reporters,
     parameters |-> SelFalse, obj_types |-> SelTrue, index |-> FALSE,
     sample |-> TRUE, constants |-> FALSE,
     param_ranges |-> param_ranges, calc_second_order |-> calc_second_order]

\* the parameter ranges handed to calc_sobol: (low, high) tuples and fixed values
ParamRanges ==
    { Dict(PyStr("x") :> PyTuple(<<0, 1>>)),
      Dict((PyStr("x") :> PyTuple(<<0, 1>>)) @@ (PyStr("y") :> PyInt(1))) }

CalcSobol(param_ranges, reporters, calc_second_order) ==
    Returns(SobolCall(param_ranges, reporters, calc_second_order),
            calc_sobol(rec, param_ranges, reporters, calc_second_order))

\* ---- the attribute-accessible mapping (tools.AttrDict, the base of DataDict)
\* An AttrDict object: the entries of the mapping and the attributes of the
\* instance, which are two stores for a plain subclass of dict.
AttrObject(items, attrs) == [items |-> items, attrs |-> attrs]

\* AttrDict(mapping)
attr_new(mapping) == AttrObject(mapping, Empty)

\* d.k = v, storing into the attributes of the instance as a plain subclass
\* of dict does
attr_setattr_plain(d, k, v) == AttrObject(d.items, (k :> v) @@ d.attrs)

\* d.k = v: the entry k of the mapping is set
attr_setattr(d, k, v) == AttrObject((k :> v) @@ d.items, d.attrs)

\* d[k] = v
attr_setitem(d, k, v) == AttrObject((k :> v) @@ d.items, d.attrs)

\* d[k]
attr_getitem(d, k) ==
    IF k \in DOMAIN d.items THEN [status |-> "ok", ret |-> d.items[k]]
    ELSE [status |-> "KeyError", ret |-> None]

\* d.k: an attribute of the instance, else the entry k of the mapping
attr_getattr(d, k) ==
    IF k \in DOMAIN d.attrs THEN [status |-> "ok", ret |-> d.attrs[k]]
    ELSE IF k \in DOMAIN d.items THEN [status |-> "ok", ret |-> d.items[k]]
    ELSE [status |-> "AttributeError", ret |-> None]

\* len(d), the count _short_repr shows
attr_len(d) == Cardinality(DOMAIN d.items)

\* the keys and values of test_attr_dict
AttrKeys == {K("a"), K("b")}
AttrValues == {PyInt(1), PyInt(2)}
AttrMappings == UNION {[S -> AttrValues] : S \in SUBSET AttrKeys}

AttrCall(op, k, v) == [op |-> op, k |-> k, v |-> v]

\* ad = AttrDict(mapping)
AttrNew(mapping) ==
    Returns(AttrCall("AttrDict", <<>>, Dict(mapping)),
            Ret("ok", None, attr_new(mapping), <<>>))

\* ad.k = v
SetAttr(k, v) ==
    Returns(AttrCall("__setattr__", k, v), Ret("ok", None, attr_setattr(rec, k, v), <<>>))

\* ad[k] = v
SetItemKey(k, v) ==
    Returns(AttrCall("__setitem__", k, v), Ret("ok", None, attr_setitem(rec, k, v), <<>>))

\* ad.k
GetAttr(k) ==
    Returns(AttrCall("__getattr__", k, None),
            Ret(attr_getattr(rec, k).status, attr_getattr(rec, k).ret, rec, <<>>))

\* ad[k]
GetItem(k) ==
    Returns(AttrCall("__getitem__", k, None),
            Ret(attr_getitem(rec, k).status, attr_getitem(rec, k).ret, rec, <<>>))

\* the mapping of one AttrDict, set and read by attribute and by key
InitAttr ==
    /\ base = FALSE
    /\ fs = Empty
    /\ clock = 0
    /\ out = NoOut
    /\ rec = attr_new(Empty)
    /\ res = NoResult

NextAttr ==
    \/ \E mapping \in AttrMappings : AttrNew(mapping)
    \/ \E k \in AttrKeys, v \in AttrValues : SetAttr(k, v)
    \/ \E k \in AttrKeys, v \in AttrValues : SetItemKey(k, v)
    \/ \E k \in AttrKeys : GetAttr(k)
    \/ \E k \in AttrKeys : GetItem(k)
    \/ Drop

SpecAttr == InitAttr /\ [][NextAttr]_vars

\* ---- comparing records
\* True and False as returned values
PyBool(b) == [ty |-> "bool", n |-> IF b THEN 1 ELSE 0, s |-> "", l |-> <<>>]

\* a.__eq__(other), a given by its items, other an object
data_dict_eq(a, other) == IsDataDict(other) /\ DataDictEq(a, other.items)

\* a.__ne__(other)
data_dict_ne(a, other) == ~data_dict_eq(a, other)

\* the records compared: each section absent or in one of two contents
EqSections ==
    << {{}, {<<K("log"), Log(0)>>}, {<<K("log"), Log(2)>>}},
       {{}, {<<K("reporters"), SampleTable(2, "out", 100)>>},
            {<<K("reporters"), SampleTable(2, "out", 101)>>}},
       {{}, {<<K("parameters"), DD(K("constants") :> Constants1)>>},
            {<<K("parameters"), DD((K("constants") :> Constants1)
                                   @@ (K("sample") :> SampleTable(2, "x", 10)))>>}} >>
EqRecords ==
    {PairsToFn(l \cup m \cup p) :
        l \in EqSections[1], m \in EqSections[2], p \in EqSections[3]}

EqCall(op, other) == [op |-> op, other |-> other]

\* rec == other
Equals(other) ==
    Returns(EqCall("__eq__", other),
            Ret("ok", Val(PyBool(data_dict_eq(rec, DD(other)))), rec, <<>>))

\* rec != other
NotEquals(other) ==
    Returns(EqCall("__ne__", other),
            Ret("ok", Val(PyBool(data_dict_ne(rec, DD(other)))), rec, <<>>))

\* Comparison: one record compared with others
InitEq ==
    /\ base = FALSE
    /\ fs = Empty
    /\ clock = 0
    /\ out = NoOut
    /\ rec \in EqRecords
    /\ res = NoResult

NextEq ==
    \/ \E other \in EqRecords : Equals(other)
    \/ \E other \in EqRecords : NotEquals(other)
    \/ Drop

SpecEq == InitEq /\ [][NextEq]_vars

\* the caller is done with the outcome of save or load
Done ==
    /\ out # NoOut
    /\ out' = NoOut
    /\ UNCHANGED <<base, fs, clock, rec, res>>

\* Persistence: records are saved to and loaded from one base path.
Init ==
    /\ base = FALSE
    /\ fs = Empty
    /\ clock = 0
    /\ out = NoOut
    /\ rec = NoRecord
    /\ res = NoResult

Next ==
    \/ \E r \in StoreRecords, n \in ExpNames \cup {NoName}, i \in 0..MaxDirs :
          Save(r, n, i)
    \/ \E n \in ExpNames \cup {NoName}, i \in 0..MaxDirs : Load(n, i)
    \/ Done

Spec == Init /\ [][Next]_vars

\* Arrangement: one record, produced by a run or an experiment, on which the
\* arrangement engine is called any number of times.
InitArrange ==
    /\ base = FALSE
    /\ fs = Empty
    /\ clock = 0
    /\ out = NoOut
    /\ \E runs \in 0..MaxSample :
          \E p \in 1..Len(ParameterShapes(runs)), v \in 1..Len(VariableShapes(runs)),
             m \in 1..Len(ReporterShapes(runs)) :
             rec = ArrangeRecord(runs, p, v, m)
    /\ res = NoResult

NextArrange ==
    \/ \E t \in TypeSelections, v \in VarSelections \ {SelFalse} : CombineVars(t, v)
    \/ \E sample \in BOOLEAN, constants \in BOOLEAN : CombinePars(sample, constants)
    \/ \E v \in VarSelections, m \in RepSelections, p \in ParSelections,
          t \in TypeSelections, index \in BOOLEAN : Arrange(v, m, p, t, index)
    \/ ArrangeReporters
    \/ ArrangeVariables
    \/ \E pr \in ParamRanges, m \in {SelNone, SelKeys(<<"out">>)}, second \in BOOLEAN :
          CalcSobol(pr, m, second)
    \/ Drop

SpecArrange == InitArrange /\ [][NextArrange]_vars

\* ---------------------------------------------------------------- claims
\* the experiment name and the id in a directory name {name}_{id}
NameOf(d) == RSplitHead(d, "_")
IdOf(d) == StrToInt(SplitLast(d, "_"))

\* the directories of exactly that experiment name
DirsOf(name, dirs) == {d \in dirs : NameOf(d) = name}

HighestId(name, dirs) ==
    IF DirsOf(name, dirs) = {} THEN 0 ELSE Max({IdOf(d) : d \in DirsOf(name, dirs)})

\* the entries C1 speaks of: tables indexed by names of i_cols, nested records
\* of such tables or of mappings, mappings json writes and reads back as they
\* are (string keys; numbers, strings and lists as values)
CoveredTable(e) == IsDataFrame(e) /\ Range(e.index) \subseteq Range(i_cols)
CoveredMapping(e) ==
    /\ e.ty = "dict"
    /\ \A k \in DOMAIN e.items :
          k.ty = "str" /\ e.items[k].ty \in {"int", "str", "list"}
CoveredRecord(r) ==
    \A key \in DOMAIN r :
        \/ CoveredTable(r[key])
        \/ CoveredMapping(r[key])
        \/ /\ IsDataDict(r[key])
           /\ \A k \in DOMAIN r[key].items :
                 CoveredTable(r[key].items[k]) \/ CoveredMapping(r[key].items[k])

LoadedBack ==
    /\ out.call.op = "load" /\ out.status = "ok"
    /\ out.call.name # NoName /\ out.call.id # NoId

\* C1: a covered record r saved as (name, id) and loaded back as (name, id)
\* gives a record l with r == l.
C1_RoundTrip ==
    (LoadedBack /\ CoveredRecord(fs[out.dir].src))
        => DataDictEq(fs[out.dir].src, out.loaded)

SavedWithoutId ==
    /\ out.call.op = "save" /\ out.call.id = NoId
    /\ out.status \in {"ok", "TypeError"}

\* C2: a save without an id creates {name}_{k}, k one more than the highest
\* id among the other directories of that name (1 when there is none).
C2_NextSequentialId ==
    SavedWithoutId =>
        IdOf(out.dir) = HighestId(NameOf(out.dir), DOMAIN fs \ {out.dir}) + 1

LoadedByName == out.call.op = "load" /\ out.call.name # NoName /\ out.call.id = NoId

\* C3: load(name) without an id reads {name}_{k}, k the highest id among the
\* directories of exactly that name, and ends not-found, reading nothing,
\* when there is none.
C3_LoadHighestId ==
    LoadedByName =>
        LET name == Replace(out.call.name, <<" ">>, <<"_">>)
        IN  IF DirsOf(name, DOMAIN fs) = {}
            THEN out.status = "FileNotFoundError" /\ out.loaded = Empty
            ELSE /\ out.status = "ok"
                 /\ out.dir = ExpDir(name, HighestId(name, DOMAIN fs))

\* C4: load() without a name and an id reads the experiment directory that
\* was modified last.
C4_LoadLatest ==
    (out.call.op = "load" /\ out.call.name = NoName /\ out.call.id = NoId
     /\ DOMAIN fs # {})
        => (out.status = "ok" /\ out.dir = LatestExp)

\* -------- the arrangement engine (SpecArrange)
\* the section of the record the call started from, Val(None) when absent
Section(key) == IF K(key) \in DOMAIN res.pre THEN res.pre[K(key)] ELSE Val(None)

HasNested(key, child) ==
    IsDataDict(Section(key)) /\ K(child) \in DOMAIN Section(key).items
Nested(key, child) == Section(key).items[K(child)]

IsNestedRecord(e) == IsDataDict(e)
IsFlatMapping(e) == e.ty \in {"dict", "AttrDict"}

\* the names of the constants and of the sampled parameters of the record
ConstantNames ==
    IF HasNested("parameters", "constants")
    THEN {k.s : k \in DOMAIN Nested("parameters", "constants").items}
    ELSE IF IsFlatMapping(Section("parameters"))
    THEN {k.s : k \in DOMAIN Section("parameters").items}
    ELSE {}
SampleNames ==
    IF HasNested("parameters", "sample")
    THEN Range(Nested("parameters", "sample").columns) ELSE {}

CombinedAll ==
    /\ res.call.op = "_combine_pars" /\ res.call.sample /\ res.call.constants
    /\ HasNested("parameters", "sample") /\ HasNested("parameters", "constants")
    /\ LogHas(res.pre, "sample_size")

\* C5: combine_parameters(sample=True, constants=True) on a nested record
\* with a sample table and constants returns a table of sample_size rows with
\* every sampled column and one column per constant, holding the constant's
\* value in every row.
C5_ConstantsBroadcast ==
    CombinedAll =>
        /\ res.status = "ok" /\ IsDataFrame(res.ret)
        /\ NRows(res.ret) = LogGet(res.pre, "sample_size").n
        /\ SampleNames \subseteq Range(res.ret.columns)
        /\ \A k \in DOMAIN Nested("parameters", "constants").items :
              /\ HasCol(res.ret, k.s)
              /\ \A r \in 1..NRows(res.ret) :
                    Cell(res.ret, r, k.s) = Nested("parameters", "constants").items[k]

\* C6: combine_parameters raises TypeError exactly when the parameters
\* section is neither a nested record nor a flat mapping; on a nested record
\* or a flat mapping it returns a table or None whatever the flags.
C6_TypeMismatchOnly ==
    (res.call.op = "_combine_pars" /\ K("parameters") \in DOMAIN res.pre) =>
        IF IsNestedRecord(Section("parameters")) \/ IsFlatMapping(Section("parameters"))
        THEN res.status = "ok" /\ (IsDataFrame(res.ret) \/ IsNone(res.ret))
        ELSE res.status = "TypeError"

ArrangeCall == res.call.op \in {"arrange", "arrange_reporters", "arrange_variables"}

\* a section of the record is absent or empty
EmptySection(key) ==
    \/ IsNone(Section(key))
    \/ IsDataFrame(Section(key)) /\ ShapeIsZero(Section(key))
    \/ ~IsDataFrame(Section(key)) /\ Section(key).ty # "value"
       /\ DOMAIN Section(key).items = {}

NothingToArrange ==
    /\ ArrangeCall
    /\ res.call.variables.sel # "False" => EmptySection("variables")
    /\ res.call.reporters.sel # "False" => EmptySection("reporters")
    /\ res.call.parameters.sel # "False" => EmptySection("parameters")

\* C7: arrange returns None, and does not raise, when no section is selected
\* or every selected section is absent or empty.
C7_ArrangeNothing == NothingToArrange => (res.status = "ok" /\ IsNone(res.ret))

\* the scenario of C8: sample_size runs, parameters.sample with column x,
\* parameters.constants = {y: 1}, reporters with column out by sample_id
Scenario(runs) ==
    /\ LogHas(res.pre, "sample_size") /\ LogGet(res.pre, "sample_size").n = runs
    /\ HasNested("parameters", "sample") /\ HasNested("parameters", "constants")
    /\ Nested("parameters", "sample") = SampleTable(runs, "x", 10)
    /\ Nested("parameters", "constants") = Constants1
    /\ Section("reporters") = SampleTable(runs, "out", 100)

\* arrange(reporters=True, parameters=True), also as arrange_reporters()
ReportersAndParameters ==
    /\ ArrangeCall
    /\ res.call.variables.sel = "False" /\ res.call.reporters.sel = "True"
    /\ res.call.parameters.sel = "True" /\ ~res.call.index

\* C8 as stated: on the scenario with 4 samples the call returns a 4-row
\* flattened table with the columns {sample_id, x, y, out}.
C8_ScenarioColumnsXY ==
    (ReportersAndParameters /\ Scenario(4)) =>
        /\ res.status = "ok" /\ IsDataFrame(res.ret)
        /\ NRows(res.ret) = 4
        /\ Range(res.ret.columns) = {"sample_id", "x", "y", "out"}

\* C8 as amended: on the scenario the call returns a flattened table with one
\* row per sample (4 rows for 4 samples) and the columns {sample_id, x, out};
\* the constant y is not a column.
C8_ScenarioColumnsX ==
    \A runs \in 1..MaxSample :
        (ReportersAndParameters /\ Scenario(runs)) =>
            /\ res.status = "ok" /\ IsDataFrame(res.ret)
            /\ NRows(res.ret) = runs
            /\ res.ret.index = <<"">>
            /\ Range(res.ret.columns) = {"sample_id", "x", "out"}
            /\ \A r \in 1..runs :
                  /\ Cell(res.ret, r, "sample_id") = PyInt(r - 1)
                  /\ Cell(res.ret, r, "x") = PyInt(10 + r - 1)
                  /\ Cell(res.ret, r, "out") = PyInt(100 + r - 1)

C8_Witness ==
    /\ ReportersAndParameters /\ Scenario(4)
    /\ res.call.op = "arrange_reporters"
    /\ res.status = "ok" /\ NRows(res.ret) = 4

Arranged == ArrangeCall /\ res.status = "ok" /\ IsDataFrame(res.ret)

\* C9: in the table arrange returns, parameters=True brings the sampled
\* parameters and no constant; a key or a list of keys brings exactly the
\* requested parameters, sampled or constant.
C9_ParameterSelection ==
    Arranged =>
        /\ res.call.parameters.sel = "True" =>
              /\ Range(res.ret.columns) \cap ConstantNames = {}
              /\ SampleNames \subseteq Range(res.ret.columns)
        /\ res.call.parameters.sel = "keys" =>
              Range(res.ret.columns) \cap (ConstantNames \cup SampleNames)
                 = Range(res.call.parameters.keys)

SingleTable ==
    /\ res.call.op = "_combine_vars"
    /\ IsDataFrame(Section("variables"))

SingleChild ==
    /\ res.call.op = "_combine_vars"
    /\ IsDataDict(Section("variables"))
    /\ Cardinality(DOMAIN Section("variables").items) = 1
    /\ \A k \in DOMAIN Section("variables").items :
          IsDataFrame(Section("variables").items[k])

\* C10: combine_variables returns the variables section itself when it is a
\* single table, and the child itself when it is a nested record with one
\* child table, whatever obj_types and var_keys are; the record keeps it.
C10_SingleIsReturned ==
    /\ SingleTable =>
          /\ res.status = "ok" /\ res.ret = Section("variables")
          /\ rec = res.pre
    /\ SingleChild =>
          /\ res.status = "ok"
          /\ \A k \in DOMAIN Section("variables").items :
                res.ret = Section("variables").items[k]
          /\ rec = res.pre

C10_Witness ==
    /\ SingleChild
    /\ K("Model") \in DOMAIN Section("variables").items
    /\ res.call.variables = SelKeys(<<"v">>)
    /\ res.call.obj_types = SelKeys(<<"Agent">>)
    /\ res.ret = VarTable(2, FALSE, "m")

\* calc_sobol(param_ranges, reporters, calc_second_order=False) on a record
\* of an experiment whose reporters hold one row per sample
SobolFirstOrder ==
    /\ res.call.op = "calc_sobol" /\ ~res.call.calc_second_order
    /\ HasNested("parameters", "sample")
    /\ IsDataFrame(Section("reporters"))
    /\ NRows(Section("reporters")) = NRows(Nested("parameters", "sample"))

\* the (reporter, parameter) pairs of the call, reporters outermost
SobolPairs ==
    LET names == IF res.call.reporters.sel = "None"
                 THEN Section("reporters").columns ELSE res.call.reporters.keys
        pars == param_ranges_tuples(res.call.param_ranges)
    IN  [i \in 1..(Len(names) * Len(pars)) |->
            <<PyStr(names[((i - 1) \div Len(pars)) + 1]),
              PyStr(pars[((i - 1) % Len(pars)) + 1])>>]

\* C11: calc_sobol with calc_second_order=False, on a record whose reporters
\* come from a compatible sample, returns the record with exactly the two new
\* entries sensitivity and sensitivity_conf, each a table with the columns
\* S1 and ST indexed by every (reporter, parameter) pair over the (low, high)
\* entries of param_ranges.
C11_SobolTables ==
    SobolFirstOrder =>
        /\ res.status = "ok"
        /\ res.ret = DD(rec)
        /\ DOMAIN rec = DOMAIN res.pre \cup {K("sensitivity"), K("sensitivity_conf")}
        /\ \A k \in DOMAIN res.pre : rec[k] = res.pre[k]
        /\ \A k \in {K("sensitivity"), K("sensitivity_conf")} :
              /\ IsDataFrame(rec[k])
              /\ Range(rec[k].columns) = {"S1", "ST"}
              /\ [i \in 1..NRows(rec[k]) |-> rec[k].rows[i].idx] = SobolPairs

\* -------- save, entry by entry (Spec)
\* save got as far as writing the entries of the record
WroteEntries ==
    /\ out.call.op = "save"
    /\ out.status \notin {"ValueError", "FileExistsError"}

SavedRecord == fs[out.dir].src
SavedDir == fs[out.dir].files

\* the record without the children of nested records that json cannot write
Serialisable(r) ==
    [key \in DOMAIN r |->
        IF IsDataDict(r[key])
        THEN DD([k \in (DOMAIN r[key].items) \ RaisingChildren(r, key) |->
                    r[key].items[k]])
        ELSE r[key]]

\* C12: in save, an entry that cannot be serialised, top-level or child of a
\* nested record, is skipped with a warning: the call ends normally, the
\* top-level entry is named in a warning, no file of a failed entry stays in
\* the directory and every other entry is written.
C12_EntryFailuresCaught ==
    WroteEntries =>
        /\ out.status = "ok"
        /\ Warned(SavedRecord) \subseteq out.warned
        /\ \A f \in DOMAIN SavedDir : SavedDir[f] # PartialFile
        /\ \A key \in DOMAIN SavedRecord :
              \A p \in EntryFiles(Serialisable(SavedRecord), key) :
                 p[1] \in DOMAIN SavedDir /\ SavedDir[p[1]] = p[2]

\* -------- attribute access and key access (SpecAttr)
\* both ways of reading entry k of the mapping give v
ReadsAs(k, v) ==
    /\ attr_getattr(rec, k) = [status |-> "ok", ret |-> v]
    /\ attr_getitem(rec, k) = [status |-> "ok", ret |-> v]

\* C13: after d.k = v or d[k] = v, or construction from a mapping holding
\* k: v, both d.k and d[k] return v, and the number of entries counts every
\* key set by either route; a read by attribute returns what the read by key
\* returns.
C13_AttrKeyInterchangeable ==
    /\ res.call.op \in {"__setattr__", "__setitem__"} =>
          /\ ReadsAs(res.call.k, res.call.v)
          /\ attr_len(rec) = Cardinality(DOMAIN res.pre.items \cup {res.call.k})
          /\ \A k \in (DOMAIN res.pre.items) \ {res.call.k} :
                ReadsAs(k, res.pre.items[k])
    /\ res.call.op = "AttrDict" =>
          /\ \A k \in DOMAIN res.call.v.items : ReadsAs(k, res.call.v.items[k])
          /\ attr_len(rec) = Cardinality(DOMAIN res.call.v.items)
    /\ res.call.op = "__getattr__" =>
          IF res.call.k \in DOMAIN rec.items
          THEN [status |-> res.status, ret |-> res.ret] = attr_getitem(rec, res.call.k)
          ELSE res.status = "AttributeError"

\* ad = AttrDict({'a': 1}); ad.b = 2, as in test_attr_dict
C13_Witness ==
    /\ res.call = AttrCall("__setattr__", K("b"), PyInt(2))
    /\ res.pre = attr_new(K("a") :> PyInt(1))
    /\ ReadsAs(K("a"), PyInt(1)) /\ ReadsAs(K("b"), PyInt(2))
    /\ attr_len(rec) = 2

\* -------- the index of combined variables (SpecArrange)
\* _combine_vars concatenated the children of a nested variables section
Concatenated ==
    /\ res.call.op = "_combine_vars"
    /\ IsDataDict(Section("variables"))
    /\ Cardinality(DOMAIN Section("variables").items) >= 2
    /\ res.status = "ok" /\ IsDataFrame(res.ret)

\* the rows of the combined table that carry obj_type k
RowsOfType(k) == SelectSeq(res.ret.rows, LAMBDA row : row.idx[1] = PyStr(k))

\* the index of row i of child k as it stands in the combined table: below
\* obj_type, with obj_id = 0 before the last level for the model type
CombinedIdx(k, i) ==
    LET idx == Section("variables").items[K(k)].rows[i].idx
    IN  <<PyStr(k)>> \o
        (IF PyStr(k) = LogGet(res.pre, "model_type")
         THEN SubSeq(idx, 1, Len(idx) - 1) \o <<PyInt(0), idx[Len(idx)]>>
         ELSE idx)

\* C14: the table _combine_vars concatenates has obj_type as its outermost
\* index level, holding for each row the key of the child it came from; the
\* rows of the child keyed by log.model_type have obj_id = 0 as second-to-last
\* level; all rows share the index shape (obj_type, ..., obj_id, t).
C14_ConcatIndexShape ==
    Concatenated =>
        LET df == res.ret
            n == Len(df.index)
            vs == Section("variables").items
        IN  /\ n >= 3
            /\ df.index[1] = "obj_type"
            /\ df.index[n - 1] = "obj_id" /\ df.index[n] = "t"
            /\ \A i \in 1..NRows(df) :
                  /\ Len(df.rows[i].idx) = n
                  /\ K(df.rows[i].idx[1].s) \in DOMAIN vs
            /\ \A key \in DOMAIN vs :
                  \/ RowsOfType(key[1]) = <<>>
                  \/ /\ Len(RowsOfType(key[1])) = NRows(vs[key])
                     /\ \A i \in 1..NRows(vs[key]) :
                           /\ RowsOfType(key[1])[i].idx = CombinedIdx(key[1], i)
                           /\ \A c \in Range(df.columns) \cap Range(vs[key].columns) :
                                 RowsOfType(key[1])[i].vals[PosOf(df.columns, c)]
                                    = Cell(vs[key], i, c)

\* model and agent variables of an experiment combined into one table
C14_Witness ==
    /\ Concatenated
    /\ res.call.variables = SelTrue /\ res.call.obj_types = SelTrue
    /\ res.ret.index = <<"obj_type", "sample_id", "obj_id", "t">>
    /\ RowsOfType("Model") # <<>> /\ RowsOfType("Agent") # <<>>
    /\ \A i \in 1..Len(RowsOfType("Model")) : RowsOfType("Model")[i].idx[3] = PyInt(0)

\* -------- arrangement reads the record (SpecArrange)
ArrangementCall ==
    res.call.op \in {"_combine_vars", "_combine_pars", "arrange",
                     "arrange_reporters", "arrange_variables"}

\* C15: _combine_vars, _combine_pars and arrange do not modify the record:
\* after a call every table of the variables, reporters and parameters
\* sections has the columns, index and values it had before.
C15_ReadOnlyArrangement == ArrangementCall => rec = res.pre

\* -------- equality of records (SpecEq)
\* same keys, and every entry equal to the entry under the same key
SameContent(a, b) == DOMAIN a = DOMAIN b /\ \A key \in DOMAIN a : a[key] = b[key]

\* C16: a == b holds exactly when b == a holds, which is exactly when a and b
\* have the same keys and equal entries; a record does not equal a record
\* with an additional key; a != b is the negation of a == b.
C16_EqualityIsEquivalence ==
    /\ res.call.op = "__eq__" =>
          /\ res.ret = Val(PyBool(data_dict_eq(res.call.other, DD(res.pre))))
          /\ res.ret = Val(PyBool(SameContent(res.pre, res.call.other)))
    /\ res.call.op = "__ne__" =>
          res.ret = Val(PyBool(~data_dict_eq(res.pre, DD(res.call.other))))

====
